---- MODULE Spec2Model ----
(***************************************************************************)
(* Verification model of the pymeasure instrument drivers AgilentU2040X,   *)
(* RohdeSMB100A and RohdeFSQ.                                              *)
(*                                                                         *)
(* A driver talks to its instrument through a session offering three       *)
(* primitives: write(command), ask(command) -> response and next_error().  *)
(* The model records, for the operation performed last, the primitives it  *)
(* invoked on the session (in order), its outcome and the value returned,  *)
(* and it counts the asks every session has seen so far and the responses  *)
(* the instrument has produced that nobody has read yet.                   *)
(*                                                                         *)
(* Numbers are fixed-point: a numeric value is an integer count of         *)
(* 1/Scale units, so that 2.5 or -99.99 are values of the model.           *)
(***************************************************************************)
EXTENDS Integers, Sequences, FiniteSets, TLC

VARIABLES
    freq_unit,  \* freq_unit[i]: the attribute self.freq_unit of instance i
    asks,       \* asks[i]: how often ask was invoked on i's session
    unread,     \* unread[i]: responses waiting unread in the channel of i's session
    last,       \* the operation performed last, what it was given and how it ended
    calls,      \* the session calls the last operation made, in order
    ops         \* the number of operations performed

vars == <<freq_unit, asks, unread, last, calls, ops>>

(***************************************************************************)
(* Bounds of the model.                                                    *)
(***************************************************************************)
\* Operations performed in a behaviour.
MaxOps == 2

\* Fixed-point resolution: the finest grid any declaration uses is the
\* 0.01 step of RohdeSMB100A.power_offset.
Scale == 100

(***************************************************************************)
(* Values.  A Python value passed to or returned by a property is a        *)
(* string, an int or a float.                                              *)
(***************************************************************************)
StrVal(s) == [t |-> "str", s |-> s, n |-> 0]
IntVal(k) == [t |-> "int", s |-> "", n |-> k * Scale]
\* h is the float in 1/Scale units: FloatVal(250) is 2.5
FloatVal(h) == [t |-> "float", s |-> "", n |-> h]

IsNum(v) == v.t \in {"int", "float"}

Abs(x) == IF x < 0 THEN -x ELSE x

\* str(x) of a Python float with at most two decimals: "5.0", "2.5", "-0.01".
\* The binary rounding error of a float (of the elements of
\* np.arange(-100, 100, 0.01), say) is not modelled.
FloatToStr(h) ==
    LET a     == Abs(h)
        whole == a \div Scale
        frac  == a % Scale
        digits == IF frac % 10 = 0 THEN ToString(frac \div 10)
                  ELSE (IF frac < 10 THEN "0" ELSE "") \o ToString(frac)
    IN  (IF h < 0 THEN "-" ELSE "") \o ToString(whole) \o "." \o digits

\* "%s" % value
PyStr(v) ==
    CASE v.t = "str"   -> v.s
      [] v.t = "int"   -> ToString(v.n \div Scale)
      [] v.t = "float" -> FloatToStr(v.n)

(***************************************************************************)
(* Allowed-value collections handed to the validators.                     *)
(***************************************************************************)
Min(S) == CHOOSE m \in S : \A x \in S : m <= x
Max(S) == -Min({-x : x \in S})

\* numpy.arange(start, stop, step) for integer arguments, step > 0
arange(start, stop, step) ==
    {start + k * step : k \in 0 .. ((stop - start + step - 1) \div step) - 1}

NoValues == [t |-> "none", strs |-> {}, nums |-> {}, lo |-> 0, hi |-> 0]
StrValues(S) == [t |-> "str", strs |-> S, nums |-> {}, lo |-> 0, hi |-> 0]
\* a collection of ints: N are the ints
IntValues(N) ==
    LET H == {k * Scale : k \in N}
    IN  [t |-> "int", strs |-> {}, nums |-> H, lo |-> Min(H), hi |-> Max(H)]
\* a collection of floats: H are the floats in 1/Scale units
FloatValues(H) ==
    [t |-> "float", strs |-> {}, nums |-> H, lo |-> Min(H), hi |-> Max(H)]

\* Python's  value in values
Member(v, values) ==
    IF v.t = "str" THEN v.s \in values.strs ELSE v.n \in values.nums

(***************************************************************************)
(* Validators (pymeasure.instruments.validators).  A validator returns the *)
(* value to send, or fails with InvalidValue.                              *)
(***************************************************************************)
Accept(v) == [ok |-> TRUE, v |-> v]
Reject(v) == [ok |-> FALSE, v |-> v]

\* the value must be an exact member of the allowed set
strict_discrete_set(value, values) ==
    IF Member(value, values) THEN Accept(value) ELSE Reject(value)

\* the value must lie in [min(values), max(values)]; it is not clamped
strict_range(value, values) ==
    IF IsNum(value) /\ values.lo <= value.n /\ value.n <= values.hi
    THEN Accept(value) ELSE Reject(value)

Clamp(x, lo, hi) == IF x < lo THEN lo ELSE IF x > hi THEN hi ELSE x

\* the element of S closest to c, the lower one of two equally close: the
\* first element met going outwards from c, looking below before above
RECURSIVE NearestWithin(_, _, _)
NearestWithin(c, S, r) ==
    IF c - r \in S THEN c - r
    ELSE IF c + r \in S THEN c + r
    ELSE NearestWithin(c, S, r + 1)

Nearest(c, S) == NearestWithin(c, S, 0)

\* the value is clamped into [min(values), max(values)] and snapped to the
\* nearest allowed element; fails only when nothing is allowed
truncated_discrete_set(value, values) ==
    IF values.nums = {} \/ ~IsNum(value) THEN Reject(value)
    ELSE Accept([t |-> values.t, s |-> "",
                 n |-> Nearest(Clamp(value.n, values.lo, values.hi), values.nums)])

\* the default validator of a declaration:  lambda v, vs: v
no_validator(value, values) == Accept(value)

Validate(validator, value, values) ==
    CASE validator = "strict_discrete_set"    -> strict_discrete_set(value, values)
      [] validator = "truncated_discrete_set" -> truncated_discrete_set(value, values)
      [] validator = "strict_range"           -> strict_range(value, values)
      [] validator = "none"                   -> no_validator(value, values)

(***************************************************************************)
(* The session.  An operation is handed what the instrument and the        *)
(* transport will do during it:                                            *)
(*   env.resp   the raw response the next ask reads,                       *)
(*   env.err    what next_error() returns,                                 *)
(*   env.tfail  whether the transport fails (timeout, disconnect).         *)
(* A primitive yields the call the session sees and whether it succeeded.  *)
(***************************************************************************)
NoError == [code |-> 0, message |-> ""]
UndefinedHeader == [code |-> 113, message |-> "undefined header"]
Errors == {NoError, UndefinedHeader}

Responses == {"1", "5.00", "SWEEP"}

\* env.tfail = k: the k-th write or ask of the operation fails; 0: none does
Envs == [resp : Responses, err : Errors, tfail : {0, 1}]
\* for an operation that asks for nothing and checks no error
WriteEnvs == [resp : {""}, err : {NoError}, tfail : {0, 1}]

WriteCall(cmd) == [prim |-> "write", cmd |-> cmd]
AskCall(cmd) == [prim |-> "ask", cmd |-> cmd]
NextErrorCall == [prim |-> "next_error", cmd |-> ""]

(***************************************************************************)
(* What an operation did: the session calls it made, the states of the     *)
(* access it went through, how it ended, the instrument error it raised    *)
(* and the values it returned.                                             *)
(***************************************************************************)
Done(cs, path, ret) ==
    [calls |-> cs, path |-> path, outcome |-> "ok", err |-> NoError, ret |-> ret]
Raise(cs, path, what) ==
    [calls |-> cs, path |-> path, outcome |-> what, err |-> NoError, ret |-> <<>>]
RaiseInstrumentError(cs, path, e) ==
    [calls |-> cs, path |-> path, outcome |-> "InstrumentError", err |-> e, ret |-> <<>>]

(***************************************************************************)
(* Value mapper and command formatter.                                     *)
(***************************************************************************)
\* a value map is a set of [logical, wire] pairs; the empty map is map_values=False
Mapped(value_map, logical) == \E m \in value_map : m.logical = logical
Unmapped(value_map, wire) == \E m \in value_map : m.wire = wire

to_wire(value, value_map) ==
    IF value_map = {} THEN PyStr(value)
    ELSE (CHOOSE m \in value_map : m.logical = value).wire

\* float(raw) where raw is a number, else the string
from_wire(raw, value_map) ==
    IF value_map # {} THEN (CHOOSE m \in value_map : m.wire = raw).logical
    ELSE CASE raw = "1"      -> FloatVal(1 * Scale)
           [] raw = "5.00"   -> FloatVal(5 * Scale)
           [] raw = "10"     -> FloatVal(10 * Scale)
           [] raw = "-30.5"  -> FloatVal(-3050)
           [] raw = "-200"   -> FloatVal(-200 * Scale)
           [] raw = "-200.0" -> FloatVal(-200 * Scale)
           [] OTHER          -> StrVal(raw)

\* template % token: a write template is the text before and after its "%s"
format_write(template, token) == template[1] \o token \o template[2]

format_query(template) == template

(***************************************************************************)
(* Property declarations: Instrument.control, .setting and .measurement.   *)
(***************************************************************************)
\* the keyword arguments of a declaration and their defaults
Defaults ==
    [validator |-> "none", values |-> NoValues, value_map |-> {},
     check_set_errors |-> FALSE, check_get_errors |-> FALSE]

control(get_command, set_command, kw) ==
    [readable |-> TRUE, get_command |-> get_command,
     writable |-> TRUE, set_command |-> set_command, kw |-> kw]

setting(set_command, kw) ==
    [readable |-> FALSE, get_command |-> "",
     writable |-> TRUE, set_command |-> set_command, kw |-> kw]

measurement(get_command, kw) ==
    [readable |-> TRUE, get_command |-> get_command,
     writable |-> FALSE, set_command |-> <<"", "">>, kw |-> kw]

(***************************************************************************)
(* The property descriptor: one get or one set of a declared property.     *)
(***************************************************************************)
\* Idle -> Queried -> Checked? -> Parsed -> Done
fget(p, env) ==
    LET cmd == format_query(p.get_command)
        asked == <<AskCall(cmd)>>
        checked == IF p.kw.check_get_errors THEN asked \o <<NextErrorCall>> ELSE asked
        seen == IF p.kw.check_get_errors THEN <<"Idle", "Queried", "Checked">>
                ELSE <<"Idle", "Queried">>
    IN  IF env.tfail = 1 THEN Raise(asked, <<"Idle">>, "CommunicationError")
        ELSE IF p.kw.check_get_errors /\ env.err.code # 0
        THEN RaiseInstrumentError(checked, <<"Idle", "Queried">>, env.err)
        ELSE IF p.kw.value_map # {} /\ ~Unmapped(p.kw.value_map, env.resp)
        THEN Raise(checked, seen, "ProtocolError")
        ELSE Done(checked, seen \o <<"Parsed", "Done">>,
                  <<from_wire(env.resp, p.kw.value_map)>>)

\* Idle -> Validated -> Mapped -> Sent -> Checked? -> Done
fset(p, value, env) ==
    LET val == Validate(p.kw.validator, value, p.kw.values)
        cmd == format_write(p.set_command, to_wire(val.v, p.kw.value_map))
        sent == <<WriteCall(cmd)>>
    IN  IF ~val.ok THEN Raise(<<>>, <<"Idle">>, "InvalidValue")
        ELSE IF p.kw.value_map # {} /\ ~Mapped(p.kw.value_map, val.v)
        THEN Raise(<<>>, <<"Idle", "Validated">>, "InvalidValue")
        ELSE IF env.tfail = 1
        THEN Raise(sent, <<"Idle", "Validated", "Mapped">>, "CommunicationError")
        ELSE IF ~p.kw.check_set_errors
        THEN Done(sent, <<"Idle", "Validated", "Mapped", "Sent", "Done">>, <<>>)
        ELSE IF env.err.code # 0
        THEN RaiseInstrumentError(sent \o <<NextErrorCall>>,
                                  <<"Idle", "Validated", "Mapped", "Sent">>, env.err)
        ELSE Done(sent \o <<NextErrorCall>>,
                  <<"Idle", "Validated", "Mapped", "Sent", "Checked", "Done">>, <<>>)

(***************************************************************************)
(* AgilentU2040X: declared properties.                                     *)
(***************************************************************************)
\* the declaration with its values mapped to 0 and 1 on the wire
AgilentU2040X_continuous_mode_mapped ==
    control("INIT:CONT?", <<"INIT:CONT ", "">>,
            [Defaults EXCEPT !.validator = "strict_discrete_set",
                             !.values = StrValues({"OFF", "ON"}),
                             !.value_map = {[logical |-> StrVal("OFF"), wire |-> "0"],
                                            [logical |-> StrVal("ON"), wire |-> "1"]}])

AgilentU2040X_continuous_mode ==
    control("INIT:CONT?", <<"INIT:CONT ", "">>,
            [Defaults EXCEPT !.validator = "strict_discrete_set",
                             !.values = StrValues({"OFF", "ON"})])

AgilentU2040X_read == measurement("READ?", Defaults)

(***************************************************************************)
(* RohdeSMB100A: declared properties.                                      *)
(***************************************************************************)
\* the declaration without check_set_errors
RohdeSMB100A_power_level_unchecked ==
    control(":POW?", <<":POW ", "">>,
            [Defaults EXCEPT !.check_get_errors = TRUE])

RohdeSMB100A_power_level ==
    control(":POW?", <<":POW ", "">>,
            [Defaults EXCEPT !.check_set_errors = TRUE,
                             !.check_get_errors = TRUE])

RohdeSMB100A_power_offset ==
    control(":POW:OFFS?", <<":POW:OFFS ", "">>,
            [Defaults EXCEPT !.validator = "truncated_discrete_set",
                             !.values = FloatValues(arange(-100 * Scale, 100 * Scale, 1)),
                             !.check_set_errors = TRUE,
                             !.check_get_errors = TRUE])

RohdeSMB100A_output ==
    setting(<<":OUTP ", "">>,
            [Defaults EXCEPT !.validator = "strict_discrete_set",
                             !.values = StrValues({"OFF", "ON"}),
                             !.check_set_errors = TRUE,
                             !.check_get_errors = TRUE])

RohdeSMB100A_power_unit ==
    control("UNIT:POW?", <<"UNIT:POW ", "">>,
            [Defaults EXCEPT !.validator = "strict_discrete_set",
                             !.values = StrValues({"V", "DBUV", "DBM"}),
                             !.check_set_errors = TRUE,
                             !.check_get_errors = TRUE])

RohdeSMB100A_get_instrument_options == measurement("*OPT?", Defaults)

(***************************************************************************)
(* RohdeFSQ: declared properties.                                          *)
(***************************************************************************)
\* the declaration without check_get_errors
RohdeFSQ_freq_mode_get_unchecked ==
    control("FREQ:MODE?", <<"FREQ:MODE ", "">>,
            [Defaults EXCEPT !.validator = "strict_discrete_set",
                             !.values = StrValues({"FIXED", "SWEEP"}),
                             !.check_set_errors = TRUE])

RohdeFSQ_freq_mode ==
    control("FREQ:MODE?", <<"FREQ:MODE ", "">>,
            [Defaults EXCEPT !.validator = "strict_discrete_set",
                             !.values = StrValues({"FIXED", "SWEEP"}),
                             !.check_get_errors = TRUE,
                             !.check_set_errors = TRUE])

RohdeFSQ_average_count ==
    control("AVER:COUN?", <<"AVER:COUN ", "">>,
            [Defaults EXCEPT !.validator = "truncated_discrete_set",
                             !.values = IntValues(arange(0, 32767, 1)),
                             !.check_get_errors = TRUE,
                             !.check_set_errors = TRUE])

RohdeFSQ_averaging ==
    control("AVER?", <<"AVER: ", "">>,
            [Defaults EXCEPT !.validator = "strict_discrete_set",
                             !.values = StrValues({"OFF", "ON"}),
                             !.check_get_errors = TRUE,
                             !.check_set_errors = TRUE])

RohdeFSQ_average_type ==
    control("AVER:TYPE?", <<"AVER:TYPE ", "">>,
            [Defaults EXCEPT !.validator = "strict_discrete_set",
                             !.values = StrValues({"VIDEO", "LINEAR"}),
                             !.check_get_errors = TRUE,
                             !.check_set_errors = TRUE])

RohdeFSQ_sweep_count ==
    control("SWE:COUN:CURR?", <<"SWE:COUN ", "">>,
            [Defaults EXCEPT !.validator = "truncated_discrete_set",
                             !.values = IntValues(arange(0, 32767, 1)),
                             !.check_get_errors = TRUE,
                             !.check_set_errors = TRUE])

RohdeFSQ_sweep_points ==
    control("SWE:POIN?", <<"SWE   :POIN ", "">>,
            [Defaults EXCEPT !.validator = "strict_discrete_set",
                             !.values = IntValues({155, 313, 625, 1251, 1999, 2501,
                                                   5001, 10001, 20001, 30001}),
                             !.check_get_errors = TRUE,
                             !.check_set_errors = TRUE])

RohdeFSQ_display_update ==
    setting(<<"SYST:DISP:UPD ", "">>,
            [Defaults EXCEPT !.validator = "strict_discrete_set",
                             !.values = StrValues({"OFF", "ON"}),
                             !.check_get_errors = TRUE,
                             !.check_set_errors = TRUE])

\* the declaration without its validator
RohdeFSQ_continuous_mode_unvalidated ==
    control("INIT:CONT?", <<"INIT:CONT ", "">>,
            [Defaults EXCEPT !.check_set_errors = TRUE,
                             !.check_get_errors = TRUE])

RohdeFSQ_continuous_mode ==
    control("INIT:CONT?", <<"INIT:CONT ", "">>,
            [Defaults EXCEPT !.validator = "strict_discrete_set",
                             !.values = StrValues({"OFF", "ON"}),
                             !.check_set_errors = TRUE,
                             !.check_get_errors = TRUE])

RohdeFSQ_measure_harmonics ==
    setting(<<"CALC:MARK:FUNC:HARM ", "">>,
            [Defaults EXCEPT !.validator = "strict_discrete_set",
                             !.values = StrValues({"OFF", "ON"})])

\* the declaration with the last harmonic number left out
RohdeFSQ_nharmonics_short ==
    setting(<<"CALC:MARK:FUNC:HARM:NHARM ", "">>,
            [Defaults EXCEPT !.validator = "truncated_discrete_set",
                             !.values = IntValues(arange(1, 25, 1))])

RohdeFSQ_nharmonics ==
    setting(<<"CALC:MARK:FUNC:HARM:NHARM ", "">>,
            [Defaults EXCEPT !.validator = "truncated_discrete_set",
                             !.values = IntValues(arange(1, 26, 1))])

RohdeFSQ_freq_counter ==
    setting(<<"CALC:MARK1:COUN ", "">>,
            [Defaults EXCEPT !.validator = "strict_discrete_set",
                             !.values = StrValues({"OFF", "ON"})])

RohdeFSQ_get_freq_at_marker == measurement("CALC:MARK:COUN:FREQ?", Defaults)

RohdeFSQ_power_unit ==
    setting(<<"UNIT:POW ", "">>,
            [Defaults EXCEPT !.validator = "strict_discrete_set",
                             !.values = StrValues(
                                {"DBM", "DBPW", "WATT", "DBUV", "DBMV", "VOLT", "DBUA",
                                 "AMP", "V", "A", "W", "DB", "DBPT", "PCT", "UNITLESS",
                                 "DBUV_MHZ", "DBMV_MHZ", "DBUA_MHZ", "DBUV_M", "DBUA_M",
                                 "DBUV_MMHZ", "DBUA_MMHZ"})])

\* the declaration with a validator that clamps
RohdeFSQ_ref_offset_db_clamped ==
    control("DISP:TRAC:Y:RLEV:OFFS", <<"DISP:TRAC:Y:RLEV:OFFS ", "dB">>,
            [Defaults EXCEPT !.validator = "truncated_discrete_set",
                             !.values = IntValues({-200, 200})])

RohdeFSQ_ref_offset_db ==
    control("DISP:TRAC:Y:RLEV:OFFS", <<"DISP:TRAC:Y:RLEV:OFFS ", "dB">>,
            [Defaults EXCEPT !.validator = "strict_range",
                             !.values = IntValues({-200, 200})])

(***************************************************************************)
(* The classes, their instances and their declared properties.             *)
(***************************************************************************)
\* pm = AgilentU2040X(...), pm2 = AgilentU2040X(...), sig = RohdeSMB100A(...),
\* sa = RohdeFSQ(...): two objects of one class and one of each other class
Instances == {"pm", "pm2", "sig", "sa"}

ClassOf(i) ==
    CASE i \in {"pm", "pm2"} -> "AgilentU2040X"
      [] i = "sig" -> "RohdeSMB100A"
      [] i = "sa"  -> "RohdeFSQ"

Declared(class) ==
    CASE class = "AgilentU2040X" -> {"continuous_mode", "read"}
      [] class = "RohdeSMB100A"  ->
            {"power_level", "power_offset", "output", "power_unit",
             "get_instrument_options"}
      [] class = "RohdeFSQ"      ->
            {"freq_mode", "average_count", "averaging", "average_type",
             "sweep_count", "sweep_points", "display_update", "continuous_mode",
             "measure_harmonics", "nharmonics", "freq_counter",
             "get_freq_at_marker", "power_unit", "ref_offset_db"}

Property(class, name) ==
    CASE class = "AgilentU2040X" /\ name = "continuous_mode" -> AgilentU2040X_continuous_mode
      [] class = "AgilentU2040X" /\ name = "read" -> AgilentU2040X_read
      [] class = "RohdeSMB100A" /\ name = "power_level" -> RohdeSMB100A_power_level
      [] class = "RohdeSMB100A" /\ name = "power_offset" -> RohdeSMB100A_power_offset
      [] class = "RohdeSMB100A" /\ name = "output" -> RohdeSMB100A_output
      [] class = "RohdeSMB100A" /\ name = "power_unit" -> RohdeSMB100A_power_unit
      [] class = "RohdeSMB100A" /\ name = "get_instrument_options" ->
            RohdeSMB100A_get_instrument_options
      [] class = "RohdeFSQ" /\ name = "freq_mode" -> RohdeFSQ_freq_mode
      [] class = "RohdeFSQ" /\ name = "average_count" -> RohdeFSQ_average_count
      [] class = "RohdeFSQ" /\ name = "averaging" -> RohdeFSQ_averaging
      [] class = "RohdeFSQ" /\ name = "average_type" -> RohdeFSQ_average_type
      [] class = "RohdeFSQ" /\ name = "sweep_count" -> RohdeFSQ_sweep_count
      [] class = "RohdeFSQ" /\ name = "sweep_points" -> RohdeFSQ_sweep_points
      [] class = "RohdeFSQ" /\ name = "display_update" -> RohdeFSQ_display_update
      [] class = "RohdeFSQ" /\ name = "continuous_mode" -> RohdeFSQ_continuous_mode
      [] class = "RohdeFSQ" /\ name = "measure_harmonics" -> RohdeFSQ_measure_harmonics
      [] class = "RohdeFSQ" /\ name = "nharmonics" -> RohdeFSQ_nharmonics
      [] class = "RohdeFSQ" /\ name = "freq_counter" -> RohdeFSQ_freq_counter
      [] class = "RohdeFSQ" /\ name = "get_freq_at_marker" -> RohdeFSQ_get_freq_at_marker
      [] class = "RohdeFSQ" /\ name = "power_unit" -> RohdeFSQ_power_unit
      [] class = "RohdeFSQ" /\ name = "ref_offset_db" -> RohdeFSQ_ref_offset_db

(***************************************************************************)
(* Hand-written properties and methods.  self is the instance: its         *)
(* attribute freq_unit.  self.ask and self.write are the session's.        *)
(***************************************************************************)
ask(cmd, env) ==
    IF env.tfail = 1 THEN Raise(<<AskCall(cmd)>>, <<>>, "CommunicationError")
    ELSE Done(<<AskCall(cmd)>>, <<>>, <<StrVal(env.resp)>>)

write(cmd, env) ==
    IF env.tfail = 1 THEN Raise(<<WriteCall(cmd)>>, <<>>, "CommunicationError")
    ELSE Done(<<WriteCall(cmd)>>, <<>>, <<>>)

AgilentU2040X_freq_get(self, env) == ask("FREQ?", env)
\* a setter whose unit is the one the constructor assigned
AgilentU2040X_freq_set_default_unit(self, value, env) ==
    write("FREQ " \o PyStr(value) \o "GHz", env)

AgilentU2040X_freq_set(self, value, env) ==
    write("FREQ " \o PyStr(value) \o self.freq_unit, env)

AgilentU2040X_init(self, env) == write("INIT:IMM", env)

RohdeSMB100A_fixed_freq_get(self, env) == ask(":FREQ?", env)
\* a setter that writes again when the write fails
RohdeSMB100A_fixed_freq_set_retry(self, value, env) ==
    LET sent == write(":FREQ " \o PyStr(value) \o self.freq_unit, env)
    IN  IF sent.outcome = "ok" THEN sent ELSE [sent EXCEPT !.calls = @ \o @]

RohdeSMB100A_fixed_freq_set(self, value, env) ==
    write(":FREQ " \o PyStr(value) \o self.freq_unit, env)

\* a getter that answers from memory
RohdeFSQ_center_freq_get_cached(self, env) == Done(<<>>, <<>>, <<StrVal("0")>>)

RohdeFSQ_center_freq_get(self, env) == ask(":FREQ:CENT?", env)
RohdeFSQ_center_freq_set(self, value, env) ==
    write(":FREQ:CENT " \o PyStr(value) \o self.freq_unit, env)

RohdeFSQ_freq_span_get(self, env) == ask(":FREQ:SPAN?", env)
RohdeFSQ_freq_span_set(self, value, env) ==
    write(":FREQ:SPAN " \o PyStr(value) \o self.freq_unit, env)

RohdeFSQ_freq_start_get(self, env) == ask(":FREQ:STAR?", env)
RohdeFSQ_freq_start_set(self, value, env) ==
    write(":FREQ:STAR " \o PyStr(value) \o self.freq_unit, env)

RohdeFSQ_freq_stop_get(self, env) == ask(":FREQ:STOP?", env)
RohdeFSQ_freq_stop_set(self, value, env) ==
    write(":FREQ:STOP " \o PyStr(value) \o self.freq_unit, env)

RohdeFSQ_res_bw_get(self, env) == ask("BAND?", env)
RohdeFSQ_res_bw_set(self, value, env) ==
    write("BAND " \o PyStr(value) \o self.freq_unit, env)

RohdeFSQ_video_bw_get(self, env) == ask("BAND:VID?", env)
RohdeFSQ_video_bw_set(self, value, env) ==
    write("BAND:VID " \o PyStr(value) \o self.freq_unit, env)

\* strict_range(num, np.arange(1, 4, 1))
validate_marker_number(num) == strict_range(num, IntValues(arange(1, 4, 1)))

RohdeFSQ_peak_search(self, num, env) ==
    LET num_value == validate_marker_number(num)
    IN  IF ~num_value.ok THEN Raise(<<>>, <<>>, "InvalidValue")
        ELSE write("CALC:MARK" \o PyStr(num_value.v) \o ":PEAK", env)

\* a marker_state that selects the marker before it looks at the state
RohdeFSQ_marker_state_late(self, num, state, env) ==
    LET num_value == validate_marker_number(num)
        state_value == strict_discrete_set(state, StrValues({"OFF", "ON"}))
        selected == write("CALC:MARK" \o PyStr(num_value.v), env)
    IN  IF ~num_value.ok THEN Raise(<<>>, <<>>, "InvalidValue")
        ELSE IF ~state_value.ok THEN Raise(selected.calls, <<>>, "InvalidValue")
        ELSE write("CALC:MARK" \o PyStr(num_value.v) \o " " \o PyStr(state_value.v), env)

RohdeFSQ_marker_state(self, num, state, env) ==
    LET num_value == validate_marker_number(num)
        state_value == strict_discrete_set(state, StrValues({"OFF", "ON"}))
    IN  IF ~num_value.ok THEN Raise(<<>>, <<>>, "InvalidValue")
        ELSE IF ~state_value.ok THEN Raise(<<>>, <<>>, "InvalidValue")
        ELSE write("CALC:MARK" \o PyStr(num_value.v) \o " " \o PyStr(state_value.v), env)

RohdeFSQ_put_marker_at_freq(self, num, freq, env) ==
    LET num_value == validate_marker_number(num)
    IN  IF ~num_value.ok THEN Raise(<<>>, <<>>, "InvalidValue")
        ELSE write("CALC:MARK" \o PyStr(num_value.v) \o ":X " \o PyStr(freq)
                       \o self.freq_unit, env)

\* float(value) of a response
PyFloat(raw) ==
    LET v == from_wire(raw, {}) IN [ok |-> IsNum(v), v |-> v]

RohdeFSQ_get_y_at_marker(self, num, env) ==
    LET num_value == validate_marker_number(num)
        value == ask("CALC:MARK" \o PyStr(num_value.v) \o ":Y?", env)
    IN  IF ~num_value.ok THEN Raise(<<>>, <<>>, "InvalidValue")
        ELSE IF value.outcome # "ok" THEN value
        ELSE IF ~PyFloat(value.ret[1].s).ok THEN Raise(value.calls, <<>>, "ValueError")
        ELSE Done(value.calls, <<>>, <<PyFloat(value.ret[1].s).v>>)

\* ",".join(tokens)
RECURSIVE Join(_)
Join(tokens) ==
    IF Len(tokens) = 1 THEN tokens[1] ELSE tokens[1] \o "," \o Join(Tail(tokens))

\* The responses to "CALC:MARK:FUNC:HARM:LIST?" the model draws from, each as
\* the tokens between its commas.
HarmonicResponses ==
    {<<"">>, <<"-200">>, <<"-200", "-200.0">>, <<"10">>, <<"10", "-200", "-30.5">>,
     <<"-200.0", "-30.5", "10", "-200", "-30.5">>}

\* read_value.split(','): the tokens whose join with commas is read_value
split(read_value) == CHOOSE tokens \in HarmonicResponses : Join(tokens) = read_value

RohdeFSQ_get_harmonics(self, harmonic_power, env) ==
    LET hpwr == strict_discrete_set(harmonic_power, StrValues({"Relative", "Absolute"}))
        read_value == ask("CALC:MARK:FUNC:HARM:LIST?", env)
        tokens == split(read_value.ret[1].s)
        parsed == [k \in DOMAIN tokens |-> PyFloat(tokens[k])]
        listharm == [k \in DOMAIN tokens |-> parsed[k].v]
        harm == SelectSeq(listharm, LAMBDA x : x.n # -200 * Scale)
        abs_harm == <<harm[1]>> \o [k \in 1 .. Len(harm) - 1 |->
                                        FloatVal(harm[1].n + harm[k + 1].n)]
    IN  IF ~hpwr.ok THEN Raise(<<>>, <<>>, "InvalidValue")
        ELSE IF read_value.outcome # "ok" THEN read_value
        ELSE IF \E k \in DOMAIN tokens : ~parsed[k].ok
        THEN Raise(read_value.calls, <<>>, "ValueError")
        ELSE IF hpwr.v = StrVal("Relative") THEN Done(read_value.calls, <<>>, <<harm>>)
        ELSE IF harm = <<>> THEN Raise(read_value.calls, <<>>, "IndexError")
        ELSE Done(read_value.calls, <<>>, <<abs_harm>>)

RohdeFSQ_all_markers_off(self, env) == write("CALC:MARK:AOFF", env)

RohdeFSQ_set_ref_at_marker_level(self, num, env) ==
    LET num_value == validate_marker_number(num)
    IN  IF ~num_value.ok THEN Raise(<<>>, <<>>, "InvalidValue")
        ELSE write("CALC:MARK" \o PyStr(num_value.v) \o ":FUNC:REF", env)

RohdeFSQ_set_center_freq_at_marker_freq(self, num, env) ==
    LET num_value == validate_marker_number(num)
    IN  IF ~num_value.ok THEN Raise(<<>>, <<>>, "InvalidValue")
        ELSE write("CALC:MARK" \o PyStr(num_value.v) \o ":FUNC:CENT", env)

\* int(value) of a number: truncation toward zero
PyInt(v) == IF v.n >= 0 THEN v.n \div Scale ELSE -((-v.n) \div Scale)

\* an init that always waits for the end of the sweep
RohdeFSQ_init_single(self, env) ==
    LET mode == fget(RohdeFSQ_continuous_mode, env)
        wenv == [env EXCEPT !.tfail = IF @ = 2 THEN 1 ELSE 0]
        sent == write("INIT;*OPC?", wenv)
    IN  IF mode.outcome # "ok" THEN [mode EXCEPT !.path = <<>>]
        ELSE IF ~IsNum(mode.ret[1]) THEN Raise(mode.calls, <<>>, "ValueError")
        ELSE [sent EXCEPT !.calls = mode.calls \o @]

\* reads continuous_mode, then starts a sweep
RohdeFSQ_init(self, env) ==
    LET mode == fget(RohdeFSQ_continuous_mode, env)
        wenv == [env EXCEPT !.tfail = IF @ = 2 THEN 1 ELSE 0]
        sent == IF PyInt(mode.ret[1]) = 1 THEN write("INIT", wenv)
                ELSE write("INIT;*OPC?", wenv)
    IN  IF mode.outcome # "ok" THEN [mode EXCEPT !.path = <<>>]
        ELSE IF ~IsNum(mode.ret[1]) THEN Raise(mode.calls, <<>>, "ValueError")
        ELSE [sent EXCEPT !.calls = mode.calls \o @]

(***************************************************************************)
(* State.                                                                  *)
(***************************************************************************)
FreqUnits == {"GHz", "MHz"}

Self(i) == [freq_unit |-> freq_unit[i]]

NoEnv == [resp |-> "", err |-> NoError, tfail |-> 0]

Init ==
    /\ freq_unit = [i \in Instances |-> "GHz"]
    /\ asks = [i \in Instances |-> 0]
    /\ unread = [i \in Instances |-> 0]
    /\ last = [kind |-> "none", inst |-> "", name |-> "", args |-> <<>>, env |-> NoEnv,
               outcome |-> "ok", err |-> NoError, ret |-> <<>>, path |-> <<>>]
    /\ calls = <<>>
    /\ ops = 0

Times(cs, prim) == Cardinality({k \in DOMAIN cs : cs[k].prim = prim})

\* The commands the drivers send that contain a '?': the instrument answers
\* each of them with one response, and no other command.
QueryCommands ==
    {"FREQ?", "INIT:CONT?", "READ?", ":POW?", ":POW:OFFS?", ":FREQ?", "UNIT:POW?",
     "*OPT?", ":FREQ:CENT?", ":FREQ:SPAN?", "FREQ:MODE?", ":FREQ:STAR?", ":FREQ:STOP?",
     "AVER:COUN?", "AVER?", "AVER:TYPE?", "SWE:COUN:CURR?", "SWE:POIN?", "BAND?",
     "BAND:VID?", "INIT;*OPC?", "CALC:MARK:FUNC:HARM:LIST?", "CALC:MARK1:Y?",
     "CALC:MARK2:Y?", "CALC:MARK3:Y?", "CALC:MARK:COUN:FREQ?"}

Responds(cmd) == cmd \in QueryCommands

\* The channel after one call that reached the instrument: a write of a query
\* leaves its response unread; an ask reads the oldest response, so an ask of a
\* query leaves as many unread as before, and an ask of a command that is not
\* answered takes away one that was waiting.  next_error asks and reads.
AfterCall(n, c) ==
    CASE c.prim = "write" /\ Responds(c.cmd) -> n + 1
      [] c.prim = "ask" /\ ~Responds(c.cmd) /\ n > 0 -> n - 1
      [] OTHER -> n

RECURSIVE AfterCalls(_, _)
AfterCalls(n, cs) ==
    IF cs = <<>> THEN n ELSE AfterCalls(AfterCall(n, Head(cs)), Tail(cs))

\* the calls of an operation that went through: all but one that failed
Delivered(acc) ==
    IF acc.outcome = "CommunicationError" THEN SubSeq(acc.calls, 1, Len(acc.calls) - 1)
    ELSE acc.calls

\* an ask has a response to read: its own, or one that was waiting
Answered(n, cs) ==
    \A k \in DOMAIN cs :
        cs[k].prim = "ask" => Responds(cs[k].cmd) \/ AfterCalls(n, SubSeq(cs, 1, k - 1)) > 0

\* instance i performs an operation: acc is what the operation did
Perform(kind, i, name, args, env, acc) ==
    /\ ops < MaxOps
    /\ ops' = ops + 1
    /\ last' = [kind |-> kind, inst |-> i, name |-> name, args |-> args, env |-> env,
                outcome |-> acc.outcome, err |-> acc.err, ret |-> acc.ret,
                path |-> acc.path]
    /\ calls' = acc.calls
    /\ asks' = [asks EXCEPT ![i] = @ + Times(acc.calls, "ask")]
    /\ Answered(unread[i], Delivered(acc))
    /\ unread' = [unread EXCEPT ![i] = AfterCalls(@, Delivered(acc))]
    /\ UNCHANGED freq_unit

(***************************************************************************)
(* The values the model passes to the setters.                             *)
(***************************************************************************)
SetInputs(class, name) ==
    LET p == Property(class, name)
    IN  CASE name = "nharmonics" ->
               {IntVal(-5), IntVal(1), FloatVal(249), FloatVal(250), FloatVal(251),
                IntVal(3), IntVal(25), IntVal(26)}
          [] name \in {"average_count", "sweep_count"} ->
               {IntVal(-1), IntVal(0), IntVal(10), FloatVal(1050), FloatVal(1051),
                IntVal(32766), IntVal(32767)}
          [] name = "power_offset" ->
               {IntVal(-150), IntVal(5), FloatVal(-9999), IntVal(100)}
          [] name = "sweep_points" ->
               {IntVal(10), IntVal(155), IntVal(234), FloatVal(625 * Scale),
                IntVal(30001), IntVal(40000)}
          [] name = "ref_offset_db" ->
               {IntVal(-201), IntVal(-200), IntVal(10), FloatVal(550), IntVal(200),
                FloatVal(200 * Scale + 1), IntVal(250)}
          [] name = "power_level" -> {IntVal(-20), FloatVal(-550)}
          [] name = "power_unit" /\ class = "RohdeFSQ" ->
               {StrVal("DBM"), StrVal("DBUA_MMHZ"), StrVal("dbm"), StrVal("MAYBE")}
          [] OTHER -> {StrVal(x) : x \in p.kw.values.strs} \cup {StrVal("MAYBE")}

FreqInputs == {IntVal(915), FloatVal(250)}
MarkerInputs == {IntVal(0), IntVal(1), IntVal(2), IntVal(3), IntVal(4)}
StateInputs == {StrVal("OFF"), StrVal("ON"), StrVal("MAYBE")}
HarmonicPowerInputs == {StrVal("Relative"), StrVal("Absolute"), StrVal("Both")}

(***************************************************************************)
(* Operations.                                                             *)
(***************************************************************************)
\* instance.freq_unit = unit
SetFreqUnit(i, unit) ==
    /\ ops < MaxOps
    /\ ops' = ops + 1
    /\ freq_unit' = [freq_unit EXCEPT ![i] = unit]
    /\ last' = [kind |-> "assign", inst |-> i, name |-> "freq_unit",
                args |-> <<StrVal(unit)>>, env |-> NoEnv, outcome |-> "ok",
                err |-> NoError, ret |-> <<>>, path |-> <<>>]
    /\ calls' = <<>>
    /\ UNCHANGED <<asks, unread>>

\* value = instance.name  for a declared property that can be read
PropertyGet(i, name) ==
    /\ name \in Declared(ClassOf(i))
    /\ Property(ClassOf(i), name).readable
    /\ \E env \in Envs :
          Perform("get", i, name, <<>>, env, fget(Property(ClassOf(i), name), env))

\* instance.name = value  for a declared property that can be written
PropertySet(i, name) ==
    /\ name \in Declared(ClassOf(i))
    /\ Property(ClassOf(i), name).writable
    /\ \E value \in SetInputs(ClassOf(i), name),
          env \in [resp : {""}, err : Errors, tfail : {0, 1}] :
          /\ Perform("set", i, name, <<value>>, env,
                     fset(Property(ClassOf(i), name), value, env))

Get_AgilentU2040X_freq(i) ==
    /\ ClassOf(i) = "AgilentU2040X"
    /\ \E env \in Envs :
          /\ env.err = NoError
          /\ Perform("get", i, "freq", <<>>, env, AgilentU2040X_freq_get(Self(i), env))

Set_AgilentU2040X_freq(i) ==
    /\ ClassOf(i) = "AgilentU2040X"
    /\ \E value \in FreqInputs, env \in WriteEnvs :
          Perform("set", i, "freq", <<value>>, env,
                  AgilentU2040X_freq_set(Self(i), value, env))

Get_RohdeSMB100A_fixed_freq(i) ==
    /\ ClassOf(i) = "RohdeSMB100A"
    /\ \E env \in Envs :
          /\ env.err = NoError
          /\ Perform("get", i, "fixed_freq", <<>>, env, RohdeSMB100A_fixed_freq_get(Self(i), env))

Set_RohdeSMB100A_fixed_freq(i) ==
    /\ ClassOf(i) = "RohdeSMB100A"
    /\ \E value \in FreqInputs, env \in WriteEnvs :
          Perform("set", i, "fixed_freq", <<value>>, env,
                  RohdeSMB100A_fixed_freq_set(Self(i), value, env))

Get_RohdeFSQ_center_freq(i) ==
    /\ ClassOf(i) = "RohdeFSQ"
    /\ \E env \in Envs :
          /\ env.err = NoError
          /\ Perform("get", i, "center_freq", <<>>, env, RohdeFSQ_center_freq_get(Self(i), env))

Set_RohdeFSQ_center_freq(i) ==
    /\ ClassOf(i) = "RohdeFSQ"
    /\ \E value \in FreqInputs, env \in WriteEnvs :
          Perform("set", i, "center_freq", <<value>>, env,
                  RohdeFSQ_center_freq_set(Self(i), value, env))

Get_RohdeFSQ_freq_span(i) ==
    /\ ClassOf(i) = "RohdeFSQ"
    /\ \E env \in Envs :
          /\ env.err = NoError
          /\ Perform("get", i, "freq_span", <<>>, env, RohdeFSQ_freq_span_get(Self(i), env))

Set_RohdeFSQ_freq_span(i) ==
    /\ ClassOf(i) = "RohdeFSQ"
    /\ \E value \in FreqInputs, env \in WriteEnvs :
          Perform("set", i, "freq_span", <<value>>, env,
                  RohdeFSQ_freq_span_set(Self(i), value, env))

Get_RohdeFSQ_freq_start(i) ==
    /\ ClassOf(i) = "RohdeFSQ"
    /\ \E env \in Envs :
          /\ env.err = NoError
          /\ Perform("get", i, "freq_start", <<>>, env, RohdeFSQ_freq_start_get(Self(i), env))

Set_RohdeFSQ_freq_start(i) ==
    /\ ClassOf(i) = "RohdeFSQ"
    /\ \E value \in FreqInputs, env \in WriteEnvs :
          Perform("set", i, "freq_start", <<value>>, env,
                  RohdeFSQ_freq_start_set(Self(i), value, env))

Get_RohdeFSQ_freq_stop(i) ==
    /\ ClassOf(i) = "RohdeFSQ"
    /\ \E env \in Envs :
          /\ env.err = NoError
          /\ Perform("get", i, "freq_stop", <<>>, env, RohdeFSQ_freq_stop_get(Self(i), env))

Set_RohdeFSQ_freq_stop(i) ==
    /\ ClassOf(i) = "RohdeFSQ"
    /\ \E value \in FreqInputs, env \in WriteEnvs :
          Perform("set", i, "freq_stop", <<value>>, env,
                  RohdeFSQ_freq_stop_set(Self(i), value, env))

Get_RohdeFSQ_res_bw(i) ==
    /\ ClassOf(i) = "RohdeFSQ"
    /\ \E env \in Envs :
          /\ env.err = NoError
          /\ Perform("get", i, "res_bw", <<>>, env, RohdeFSQ_res_bw_get(Self(i), env))

Set_RohdeFSQ_res_bw(i) ==
    /\ ClassOf(i) = "RohdeFSQ"
    /\ \E value \in FreqInputs, env \in WriteEnvs :
          Perform("set", i, "res_bw", <<value>>, env,
                  RohdeFSQ_res_bw_set(Self(i), value, env))

Get_RohdeFSQ_video_bw(i) ==
    /\ ClassOf(i) = "RohdeFSQ"
    /\ \E env \in Envs :
          /\ env.err = NoError
          /\ Perform("get", i, "video_bw", <<>>, env, RohdeFSQ_video_bw_get(Self(i), env))

Set_RohdeFSQ_video_bw(i) ==
    /\ ClassOf(i) = "RohdeFSQ"
    /\ \E value \in FreqInputs, env \in WriteEnvs :
          Perform("set", i, "video_bw", <<value>>, env,
                  RohdeFSQ_video_bw_set(Self(i), value, env))

Call_AgilentU2040X_init(i) ==
    /\ ClassOf(i) = "AgilentU2040X"
    /\ \E env \in WriteEnvs :
          Perform("call", i, "init", <<>>, env, AgilentU2040X_init(Self(i), env))

Call_RohdeFSQ_init(i) ==
    /\ ClassOf(i) = "RohdeFSQ"
    /\ \E env \in [resp : Responses, err : Errors, tfail : {0, 1, 2}] :
          Perform("call", i, "init", <<>>, env, RohdeFSQ_init(Self(i), env))

Call_RohdeFSQ_peak_search(i) ==
    /\ ClassOf(i) = "RohdeFSQ"
    /\ \E num \in MarkerInputs, env \in WriteEnvs :
          Perform("call", i, "peak_search", <<num>>, env,
                  RohdeFSQ_peak_search(Self(i), num, env))

Call_RohdeFSQ_marker_state(i) ==
    /\ ClassOf(i) = "RohdeFSQ"
    /\ \E num \in MarkerInputs, state \in StateInputs, env \in WriteEnvs :
          Perform("call", i, "marker_state", <<num, state>>, env,
                  RohdeFSQ_marker_state(Self(i), num, state, env))

Call_RohdeFSQ_put_marker_at_freq(i) ==
    /\ ClassOf(i) = "RohdeFSQ"
    /\ \E num \in MarkerInputs, freq \in FreqInputs, env \in WriteEnvs :
          Perform("call", i, "put_marker_at_freq", <<num, freq>>, env,
                  RohdeFSQ_put_marker_at_freq(Self(i), num, freq, env))

Call_RohdeFSQ_get_y_at_marker(i) ==
    /\ ClassOf(i) = "RohdeFSQ"
    /\ \E num \in MarkerInputs, env \in Envs :
          /\ env.err = NoError
          /\ Perform("call", i, "get_y_at_marker", <<num>>, env,
                     RohdeFSQ_get_y_at_marker(Self(i), num, env))

Call_RohdeFSQ_get_harmonics(i) ==
    /\ ClassOf(i) = "RohdeFSQ"
    /\ \E harmonic_power \in HarmonicPowerInputs, tokens \in HarmonicResponses,
          tfail \in {0, 1} :
          LET env == [resp |-> Join(tokens), err |-> NoError, tfail |-> tfail]
          IN  Perform("call", i, "get_harmonics", <<harmonic_power>>, env,
                      RohdeFSQ_get_harmonics(Self(i), harmonic_power, env))

Call_RohdeFSQ_all_markers_off(i) ==
    /\ ClassOf(i) = "RohdeFSQ"
    /\ \E env \in WriteEnvs :
          Perform("call", i, "all_markers_off", <<>>, env,
                  RohdeFSQ_all_markers_off(Self(i), env))

Call_RohdeFSQ_set_ref_at_marker_level(i) ==
    /\ ClassOf(i) = "RohdeFSQ"
    /\ \E num \in MarkerInputs, env \in WriteEnvs :
          Perform("call", i, "set_ref_at_marker_level", <<num>>, env,
                  RohdeFSQ_set_ref_at_marker_level(Self(i), num, env))

Call_RohdeFSQ_set_center_freq_at_marker_freq(i) ==
    /\ ClassOf(i) = "RohdeFSQ"
    /\ \E num \in MarkerInputs, env \in WriteEnvs :
          Perform("call", i, "set_center_freq_at_marker_freq", <<num>>, env,
                  RohdeFSQ_set_center_freq_at_marker_freq(Self(i), num, env))

Next ==
    \E i \in Instances :
        \/ \E unit \in FreqUnits : SetFreqUnit(i, unit)
        \/ \E name \in Declared(ClassOf(i)) : PropertyGet(i, name)
        \/ \E name \in Declared(ClassOf(i)) : PropertySet(i, name)
        \/ Get_AgilentU2040X_freq(i)
        \/ Set_AgilentU2040X_freq(i)
        \/ Get_RohdeSMB100A_fixed_freq(i)
        \/ Set_RohdeSMB100A_fixed_freq(i)
        \/ Get_RohdeFSQ_center_freq(i)
        \/ Set_RohdeFSQ_center_freq(i)
        \/ Get_RohdeFSQ_freq_span(i)
        \/ Set_RohdeFSQ_freq_span(i)
        \/ Get_RohdeFSQ_freq_start(i)
        \/ Set_RohdeFSQ_freq_start(i)
        \/ Get_RohdeFSQ_freq_stop(i)
        \/ Set_RohdeFSQ_freq_stop(i)
        \/ Get_RohdeFSQ_res_bw(i)
        \/ Set_RohdeFSQ_res_bw(i)
        \/ Get_RohdeFSQ_video_bw(i)
        \/ Set_RohdeFSQ_video_bw(i)
        \/ Call_AgilentU2040X_init(i)
        \/ Call_RohdeFSQ_init(i)
        \/ Call_RohdeFSQ_peak_search(i)
        \/ Call_RohdeFSQ_marker_state(i)
        \/ Call_RohdeFSQ_put_marker_at_freq(i)
        \/ Call_RohdeFSQ_get_y_at_marker(i)
        \/ Call_RohdeFSQ_get_harmonics(i)
        \/ Call_RohdeFSQ_all_markers_off(i)
        \/ Call_RohdeFSQ_set_ref_at_marker_level(i)
        \/ Call_RohdeFSQ_set_center_freq_at_marker_freq(i)

Spec == Init /\ [][Next]_vars

(***************************************************************************)
(* Properties.                                                             *)
(***************************************************************************)
IsSet(i, name) == last.kind = "set" /\ last.inst = i /\ last.name = name
IsGet(i, name) == last.kind = "get" /\ last.inst = i /\ last.name = name
IsCall(i, name) == last.kind = "call" /\ last.inst = i /\ last.name = name

\* The properties the drivers declare with validator=strict_discrete_set, and
\* what each allows.
StrictAllowed ==
    [pm  |-> [continuous_mode |-> {"OFF", "ON"}],
     sig |-> [output |-> {"OFF", "ON"}, power_unit |-> {"V", "DBUV", "DBM"}],
     sa  |-> [freq_mode |-> {"FIXED", "SWEEP"}, averaging |-> {"OFF", "ON"},
              average_type |-> {"VIDEO", "LINEAR"}, display_update |-> {"OFF", "ON"},
              continuous_mode |-> {"OFF", "ON"}, measure_harmonics |-> {"OFF", "ON"},
              freq_counter |-> {"OFF", "ON"},
              power_unit |-> {"DBM", "DBPW", "WATT", "DBUV", "DBMV", "VOLT", "DBUA",
                              "AMP", "V", "A", "W", "DB", "DBPT", "PCT", "UNITLESS",
                              "DBUV_MHZ", "DBMV_MHZ", "DBUA_MHZ", "DBUV_M", "DBUA_M",
                              "DBUV_MMHZ", "DBUA_MMHZ"}]]

\* the sweep-point counts of the analyzer, in 1/Scale units
SweepPointsGrid ==
    {k * Scale : k \in {155, 313, 625, 1251, 1999, 2501, 5001, 10001, 20001, 30001}}

\* C1: a set of a strict-discrete-set property with a value outside its allowed
\* set fails with InvalidValue, and no write, ask or next_error reaches the
\* session during it.
C1_InvalidValueBeforeIO ==
    /\ \A i \in DOMAIN StrictAllowed : \A name \in DOMAIN StrictAllowed[i] :
        (IsSet(i, name) /\ last.args[1].t = "str"
                        /\ last.args[1].s \notin StrictAllowed[i][name])
            => /\ last.outcome = "InvalidValue"
               /\ calls = <<>>
    /\ (IsSet("sa", "sweep_points") /\ IsNum(last.args[1])
                                    /\ last.args[1].n \notin SweepPointsGrid)
            => /\ last.outcome = "InvalidValue"
               /\ calls = <<>>

C1_Witness ==
    /\ IsSet("sa", "continuous_mode")
    /\ last.args = <<StrVal("MAYBE")>>
    /\ last.outcome = "InvalidValue"
    /\ calls = <<>>
    /\ ops = 2

\* C2: setting continuous_mode to OFF or ON sends exactly one write, whose
\* command is "INIT:CONT " followed by the value unchanged.
C2_ContinuousModeCommand ==
    \A i \in {"pm", "sa"} :
        (IsSet(i, "continuous_mode") /\ last.args[1] \in {StrVal("OFF"), StrVal("ON")})
            => /\ Times(calls, "write") = 1
               /\ Times(calls, "ask") = 0
               /\ calls[1] = WriteCall("INIT:CONT " \o last.args[1].s)
               /\ last.args[1].s = "OFF" => calls[1].cmd = "INIT:CONT OFF"

C2_Witness ==
    /\ IsSet("pm", "continuous_mode")
    /\ last.args = <<StrVal("OFF")>>
    /\ last.outcome = "ok"
    /\ calls = <<WriteCall("INIT:CONT OFF")>>

\* The properties declared with check_set_errors=True.
CheckedOnSet ==
    [sig |-> {"power_level", "power_offset", "output", "power_unit"},
     sa  |-> {"freq_mode", "average_count", "averaging", "average_type", "sweep_count",
              "sweep_points", "display_update", "continuous_mode"}]

\* C3: when next_error reports a non-zero code after the write of a property
\* declared with check_set_errors, the set fails with an InstrumentError of that
\* code and message; the write was sent once and nothing follows the check.
C3_SetErrorCheck ==
    \A i \in DOMAIN CheckedOnSet : \A name \in CheckedOnSet[i] :
        (IsSet(i, name) /\ last.outcome # "InvalidValue"
                        /\ last.env.tfail = 0 /\ last.env.err.code # 0)
            => /\ last.outcome = "InstrumentError"
               /\ last.err = last.env.err
               /\ Len(calls) = 2
               /\ calls[1].prim = "write"
               /\ calls[2] = NextErrorCall

C3_Witness ==
    /\ IsSet("sig", "power_level")
    /\ last.outcome = "InstrumentError"
    /\ last.err = [code |-> 113, message |-> "undefined header"]
    /\ calls = <<WriteCall(":POW -20"), NextErrorCall>>

\* The properties declared with check_get_errors=True that can be read, and the
\* query each sends.
CheckedOnGet ==
    [sig |-> [power_level |-> ":POW?", power_offset |-> ":POW:OFFS?",
              power_unit |-> "UNIT:POW?"],
     sa  |-> [freq_mode |-> "FREQ:MODE?", average_count |-> "AVER:COUN?",
              averaging |-> "AVER?", average_type |-> "AVER:TYPE?",
              sweep_count |-> "SWE:COUN:CURR?", sweep_points |-> "SWE:POIN?",
              continuous_mode |-> "INIT:CONT?"]]

\* C4: a get of a property declared with check_get_errors asks the query, then
\* calls next_error, and only then parses and returns the value; a non-zero
\* error code fails the get with an InstrumentError and nothing is returned.
C4_GetErrorCheckOrder ==
    \A i \in DOMAIN CheckedOnGet : \A name \in DOMAIN CheckedOnGet[i] :
        (IsGet(i, name) /\ last.env.tfail = 0)
            => /\ calls = <<AskCall(CheckedOnGet[i][name]), NextErrorCall>>
               /\ last.env.err.code = 0
                    => /\ last.outcome = "ok"
                       /\ last.path = <<"Idle", "Queried", "Checked", "Parsed", "Done">>
                       /\ Len(last.ret) = 1
               /\ last.env.err.code # 0
                    => /\ last.outcome = "InstrumentError"
                       /\ last.err = last.env.err
                       /\ last.ret = <<>>
                       /\ \A k \in DOMAIN last.path : last.path[k] # "Parsed"

C4_Witness ==
    /\ IsGet("sa", "freq_mode")
    /\ last.env.resp = "SWEEP"
    /\ last.outcome = "InstrumentError"
    /\ last.err.code = 113
    /\ calls = <<AskCall("FREQ:MODE?"), NextErrorCall>>

\* the element of S nearest to x clamped into [min S, max S], the lower of two
SnapTo(S, x) ==
    LET c == Clamp(x, Min(S), Max(S))
    IN  CHOOSE e \in S : \A y \in S :
            Abs(e - c) < Abs(y - c) \/ (Abs(e - c) = Abs(y - c) /\ e <= y)

\* C5: setting sweep_points never fails on the value: the value is snapped to
\* the grid and "SWE:POIN <snapped>" is written; 10 is written as "SWE:POIN 155".
C5_SweepPointsSnaps ==
    (IsSet("sa", "sweep_points") /\ IsNum(last.args[1]))
        => /\ last.outcome # "InvalidValue"
           /\ Len(calls) >= 1
           /\ calls[1] = WriteCall("SWE:POIN "
                            \o ToString(SnapTo(SweepPointsGrid, last.args[1].n) \div Scale))
           /\ last.args[1] = IntVal(10) => calls[1] = WriteCall("SWE:POIN 155")

\* C6: ref_offset_db accepts every value in [-200, 200], the two ends included,
\* and writes it once, unchanged; any other value fails with InvalidValue before
\* any write, and is never clamped.
C6_RefOffsetRange ==
    (IsSet("sa", "ref_offset_db") /\ IsNum(last.args[1]))
        => IF -200 * Scale <= last.args[1].n /\ last.args[1].n <= 200 * Scale
           THEN /\ last.outcome # "InvalidValue"
                /\ calls = <<WriteCall("DISP:TRAC:Y:RLEV:OFFS "
                                           \o PyStr(last.args[1]) \o "dB")>>
           ELSE /\ last.outcome = "InvalidValue"
                /\ calls = <<>>

C6_Witness ==
    /\ IsSet("sa", "ref_offset_db")
    /\ last.args = <<IntVal(250)>>
    /\ last.outcome = "InvalidValue"
    /\ calls = <<>>
    /\ ops = 2

\* The properties declared with validator=truncated_discrete_set over integers:
\* the first and last allowed integer and the text before the token.
TruncatedInts ==
    [nharmonics    |-> [lo |-> 1, hi |-> 25, head |-> "CALC:MARK:FUNC:HARM:NHARM "],
     average_count |-> [lo |-> 0, hi |-> 32766, head |-> "AVER:COUN "],
     sweep_count   |-> [lo |-> 0, hi |-> 32766, head |-> "SWE:COUN "]]

\* e is the allowed integer lo..hi nearest to c (in 1/Scale units), the lower
\* one of two equally near
IsNearestInt(e, c, lo, hi) ==
    /\ e \in lo .. hi
    /\ \A x \in lo .. hi :
          \/ Abs(e * Scale - c) < Abs(x * Scale - c)
          \/ Abs(e * Scale - c) = Abs(x * Scale - c) /\ e <= x

\* C7: setting a truncated-discrete-set property to a number never fails on the
\* value, and the token written is the allowed element nearest to the value
\* clamped into the allowed range, the lower one on a tie; an allowed value is
\* written unchanged.
C7_TruncatedSnapsToNearest ==
    \A name \in DOMAIN TruncatedInts :
        (IsSet("sa", name) /\ IsNum(last.args[1]))
            => LET t == TruncatedInts[name]
                   v == last.args[1].n
                   c == Clamp(v, t.lo * Scale, t.hi * Scale)
                   near == (c \div Scale) - 1 .. (c \div Scale) + 1
               IN  /\ last.outcome # "InvalidValue"
                   /\ Len(calls) >= 1
                   /\ calls[1].prim = "write"
                   /\ \E e \in near :
                         /\ calls[1].cmd = t.head \o ToString(e)
                         /\ IsNearestInt(e, c, t.lo, t.hi)
                   /\ (v % Scale = 0 /\ v \div Scale \in t.lo .. t.hi)
                         => calls[1].cmd = t.head \o ToString(v \div Scale)

C7_Witness ==
    /\ IsSet("sa", "nharmonics")
    /\ last.args = <<FloatVal(250)>>
    /\ calls = <<WriteCall("CALC:MARK:FUNC:HARM:NHARM 2")>>
    /\ last.outcome = "ok"

\* Every property that can be read, and the query it sends.
Queries ==
    [pm  |-> [freq |-> "FREQ?", continuous_mode |-> "INIT:CONT?", read |-> "READ?"],
     pm2 |-> [freq |-> "FREQ?", continuous_mode |-> "INIT:CONT?", read |-> "READ?"],
     sig |-> [power_level |-> ":POW?", power_offset |-> ":POW:OFFS?",
              fixed_freq |-> ":FREQ?", power_unit |-> "UNIT:POW?",
              get_instrument_options |-> "*OPT?"],
     sa  |-> [center_freq |-> ":FREQ:CENT?", freq_span |-> ":FREQ:SPAN?",
              freq_mode |-> "FREQ:MODE?", freq_start |-> ":FREQ:STAR?",
              freq_stop |-> ":FREQ:STOP?", average_count |-> "AVER:COUN?",
              averaging |-> "AVER?", average_type |-> "AVER:TYPE?",
              sweep_count |-> "SWE:COUN:CURR?", sweep_points |-> "SWE:POIN?",
              res_bw |-> "BAND?", video_bw |-> "BAND:VID?",
              continuous_mode |-> "INIT:CONT?",
              get_freq_at_marker |-> "CALC:MARK:COUN:FREQ?",
              ref_offset_db |-> "DISP:TRAC:Y:RLEV:OFFS"]]

\* the properties written by hand: their getters return the response as read
HandWritten ==
    {"freq", "fixed_freq", "center_freq", "freq_span", "freq_start", "freq_stop",
     "res_bw", "video_bw"}

\* the value a declared property returns for a response
Reading(raw) ==
    CASE raw = "1"     -> FloatVal(100)
      [] raw = "5.00"  -> FloatVal(500)
      [] raw = "SWEEP" -> StrVal("SWEEP")

\* C8: every get of a readable property issues its own ask on the session, so
\* the session's ask count grows by one with each get, and the value returned is
\* the one read by that ask.
C8_NoCaching ==
    [][last'.kind = "get" =>
         /\ last'.name \in DOMAIN Queries[last'.inst]
         /\ asks'[last'.inst] = asks[last'.inst] + 1
         /\ Times(calls', "ask") = 1
         /\ calls'[1] = AskCall(Queries[last'.inst][last'.name])
         /\ last'.outcome = "ok" =>
               last'.ret = <<IF last'.name \in HandWritten
                             THEN StrVal(last'.env.resp)
                             ELSE Reading(last'.env.resp)>>]_vars

C8_Witness ==
    /\ IsGet("sa", "center_freq")
    /\ last.outcome = "ok"
    /\ last.env.resp = "5.00"
    /\ last.ret = <<StrVal("5.00")>>
    /\ ops = 2
    /\ asks["sa"] = 2

\* C9: one get or one set issues at most one ask or write, of its own kind, and
\* at most one next_error; after a failure nothing more is sent.
C9_NoRetry ==
    last.kind \in {"get", "set"} =>
        /\ Times(calls, "ask") + Times(calls, "write") <= 1
        /\ Times(calls, "next_error") <= 1
        /\ last.kind = "get" => Times(calls, "write") = 0
        /\ last.kind = "set" => Times(calls, "ask") = 0
        /\ last.outcome = "InvalidValue" => calls = <<>>
        /\ last.outcome = "CommunicationError" =>
              Len(calls) = 1 /\ calls[1].prim \in {"ask", "write"}
        /\ last.outcome = "InstrumentError" =>
              Len(calls) = 2 /\ calls[2] = NextErrorCall

C9_Witness ==
    /\ IsSet("sig", "power_offset")
    /\ last.args = <<IntVal(5)>>
    /\ last.outcome = "InstrumentError"
    /\ calls = <<WriteCall(":POW:OFFS 5.0"), NextErrorCall>>

\* C10: marker numbers 1 to 4 are accepted: marker_state(num, state) writes
\* "CALC:MARK<num> <state>", and the other marker methods accept them too.
C10_FourMarkers ==
    /\ \A num \in 1 .. 4 : \A state \in {"OFF", "ON"} :
          (IsCall("sa", "marker_state")
              /\ last.args = <<IntVal(num), StrVal(state)>>)
            => /\ last.outcome # "InvalidValue"
               /\ calls = <<WriteCall("CALC:MARK" \o ToString(num) \o " " \o state)>>
    /\ \A name \in {"peak_search", "put_marker_at_freq", "get_y_at_marker",
                    "set_ref_at_marker_level", "set_center_freq_at_marker_freq"} :
          (IsCall("sa", name) /\ last.args[1] \in {IntVal(num) : num \in 1 .. 4})
            => last.outcome # "InvalidValue"

\* The frequency properties written by hand, and the header each set writes.
FreqHeaders ==
    [pm  |-> [freq |-> "FREQ"],
     pm2 |-> [freq |-> "FREQ"],
     sig |-> [fixed_freq |-> ":FREQ"],
     sa  |-> [center_freq |-> ":FREQ:CENT", freq_span |-> ":FREQ:SPAN",
              freq_start |-> ":FREQ:STAR", freq_stop |-> ":FREQ:STOP",
              res_bw |-> "BAND", video_bw |-> "BAND:VID"]]

\* C11: every instance starts with the unit "GHz"; a set of a hand-written
\* frequency property writes exactly one command, its header, a space, the
\* value and the unit its instance holds, which is the one assigned to that
\* instance last; assigning freq_unit sends nothing and changes the unit of
\* that instance only, and no other operation changes any unit.
C11_FreqUnitFrame ==
    /\ \A i \in DOMAIN FreqHeaders : freq_unit[i] = "GHz"
    /\ [][/\ (last'.kind = "set" /\ last'.name \in DOMAIN FreqHeaders[last'.inst])
               => calls' = <<WriteCall(FreqHeaders[last'.inst][last'.name] \o " "
                                         \o PyStr(last'.args[1])
                                         \o freq_unit[last'.inst])>>
          /\ last'.kind = "assign"
               => /\ calls' = <<>>
                  /\ asks' = asks
                  /\ unread' = unread
                  /\ freq_unit'[last'.inst] = last'.args[1].s
                  /\ \A j \in DOMAIN FreqHeaders \ {last'.inst} :
                        freq_unit'[j] = freq_unit[j]
          /\ last'.kind # "assign" => freq_unit' = freq_unit]_vars

\* pm was switched to MHz, and the other power meter still writes GHz
C11_Witness ==
    /\ IsSet("pm2", "freq")
    /\ last.args = <<IntVal(915)>>
    /\ freq_unit["pm"] = "MHz"
    /\ freq_unit["pm2"] = "GHz"
    /\ calls = <<WriteCall("FREQ 915GHz")>>
    /\ ops = 2

\* what int() makes of a response to "INIT:CONT?": no entry for one that is
\* not a number
ModeRead == [x \in {"1", "5.00"} |-> IF x = "1" THEN 1 ELSE 5]

\* C12: init asks "INIT:CONT?" once and calls next_error before it writes
\* anything; when the mode read is 1 it then writes "INIT" and nothing else,
\* when it is another number it writes "INIT;*OPC?" and nothing else; when the
\* read fails (transport failure, instrument error, or a response that is no
\* number) nothing is written.
C12_InitReadsThenWrites ==
    IsCall("sa", "init") =>
        /\ Len(calls) >= 1
        /\ calls[1] = AskCall("INIT:CONT?")
        /\ Times(calls, "ask") = 1
        /\ last.env.tfail = 1
              => /\ calls = <<AskCall("INIT:CONT?")>>
                 /\ last.outcome = "CommunicationError"
        /\ (last.env.tfail # 1 /\ last.env.err.code # 0)
              => /\ calls = <<AskCall("INIT:CONT?"), NextErrorCall>>
                 /\ last.outcome = "InstrumentError"
        /\ (last.env.tfail # 1 /\ last.env.err.code = 0
                               /\ last.env.resp \notin DOMAIN ModeRead)
              => /\ calls = <<AskCall("INIT:CONT?"), NextErrorCall>>
                 /\ last.outcome = "ValueError"
        /\ (last.env.tfail # 1 /\ last.env.err.code = 0
                               /\ last.env.resp \in DOMAIN ModeRead)
              => calls = <<AskCall("INIT:CONT?"), NextErrorCall,
                           WriteCall(IF ModeRead[last.env.resp] = 1 THEN "INIT"
                                     ELSE "INIT;*OPC?")>>

C12_Witness ==
    /\ IsCall("sa", "init")
    /\ last.env.resp = "1"
    /\ last.outcome = "ok"
    /\ calls = <<AskCall("INIT:CONT?"), NextErrorCall, WriteCall("INIT")>>

\* The readings each response to "CALC:MARK:FUNC:HARM:LIST?" lists, in 1/Scale
\* units.
HarmonicReadings ==
    ("-200" :> <<-20000>>) @@ ("-200,-200.0" :> <<-20000, -20000>>)
        @@ ("10" :> <<1000>>) @@ ("10,-200,-30.5" :> <<1000, -20000, -3050>>)
        @@ ("-200.0,-30.5,10,-200,-30.5" :> <<-20000, -3050, 1000, -20000, -3050>>)

\* C13: get_harmonics drops the readings equal to -200 and keeps the order of
\* the others; 'Relative' returns these; 'Absolute' returns a list of the same
\* length that starts with the first of them, h0, and continues with h0 plus
\* each later one.  This for every list of readings, one of only -200 included.
C13_Harmonics ==
    (/\ IsCall("sa", "get_harmonics")
     /\ last.args[1] \in {StrVal("Relative"), StrVal("Absolute")}
     /\ last.env.tfail = 0
     /\ last.env.resp \in DOMAIN HarmonicReadings)
        => LET readings == HarmonicReadings[last.env.resp]
               harm == SelectSeq(readings, LAMBDA x : x # -200 * Scale)
           IN  /\ last.outcome = "ok"
               /\ Len(last.ret) = 1
               /\ Len(last.ret[1]) = Len(harm)
               /\ last.args[1] = StrVal("Relative")
                     => \A k \in 1 .. Len(harm) : last.ret[1][k] = FloatVal(harm[k])
               /\ last.args[1] = StrVal("Absolute")
                     => \A k \in 1 .. Len(harm) :
                           last.ret[1][k] = FloatVal(IF k = 1 THEN harm[1]
                                                     ELSE harm[1] + harm[k])

\* C14: the channel of every session stays in step: no write carries a command
\* that the instrument answers (one with a '?'), and no response is waiting
\* unread after an operation, so every ask reads the response to its own
\* command.
C14_ChannelInStep ==
    /\ \A k \in DOMAIN calls : calls[k].prim = "write" => ~Responds(calls[k].cmd)
    /\ \A i \in Instances : unread[i] = 0

\* the methods of RohdeFSQ whose first argument is a marker number
MarkerMethods ==
    {"marker_state", "peak_search", "put_marker_at_freq", "get_y_at_marker",
     "set_ref_at_marker_level", "set_center_freq_at_marker_freq"}

\* C15: a marker method called with a marker number outside 1..4, marker_state
\* called with a state other than OFF and ON, and get_harmonics called with a
\* harmonic_power other than Relative and Absolute fail with InvalidValue, and
\* the session has seen no write, ask or next_error of the call; no marker
\* method or get_harmonics that rejects an argument has used the session.
C15_ArgumentsBeforeIO ==
    /\ (last.kind = "call" /\ last.inst = "sa" /\ last.name \in MarkerMethods
                           /\ last.args[1] \notin {IntVal(k) : k \in 1 .. 4})
          => /\ last.outcome = "InvalidValue"
             /\ calls = <<>>
    /\ (IsCall("sa", "marker_state") /\ last.args[2] \notin {StrVal("OFF"), StrVal("ON")})
          => /\ last.outcome = "InvalidValue"
             /\ calls = <<>>
    /\ (IsCall("sa", "get_harmonics")
            /\ last.args[1] \notin {StrVal("Relative"), StrVal("Absolute")})
          => /\ last.outcome = "InvalidValue"
             /\ calls = <<>>
    /\ (last.kind = "call" /\ last.name \in MarkerMethods \cup {"get_harmonics"}
                           /\ last.outcome = "InvalidValue")
          => calls = <<>>

C15_Witness ==
    /\ IsCall("sa", "marker_state")
    /\ last.args = <<IntVal(2), StrVal("MAYBE")>>
    /\ last.outcome = "InvalidValue"
    /\ calls = <<>>
    /\ asks["sa"] = 1
    /\ ops = 2

\* Every text that, followed by '?', is a query the drivers declare or that,
\* followed by a space, starts a write template they declare.
CommandHeaders ==
    {"INIT:CONT", ":POW", ":POW:OFFS", "UNIT:POW", "FREQ:MODE", "AVER:COUN", "AVER",
     "AVER:", "AVER:TYPE", "SWE:COUN", "SWE:COUN:CURR", "SWE:POIN", "SWE   :POIN",
     "DISP:TRAC:Y:RLEV:OFFS", "READ", "*OPT", "CALC:MARK:COUN:FREQ", ":OUTP",
     "SYST:DISP:UPD", "CALC:MARK:FUNC:HARM", "CALC:MARK:FUNC:HARM:NHARM",
     "CALC:MARK1:COUN"}

\* C16: a declared property that can be read and written has one header: its
\* query template is the header followed by '?' and its write template is the
\* same header, one space and the substitution site; a get of it asks that
\* query and a set of it writes a command.
C16_OneSettingPerProperty ==
    \A i \in Instances : \A name \in Declared(ClassOf(i)) :
        (/\ Property(ClassOf(i), name).readable
         /\ Property(ClassOf(i), name).writable
         /\ IsGet(i, name) \/ IsSet(i, name)
         /\ calls # <<>>)
            => \E header \in CommandHeaders :
                  /\ Property(ClassOf(i), name).get_command = header \o "?"
                  /\ Property(ClassOf(i), name).set_command[1] = header \o " "
                  /\ IsGet(i, name) => calls[1] = AskCall(header \o "?")
                  /\ IsSet(i, name) => calls[1].prim = "write"

====
